---- MODULE Spec2Model ----
(***************************************************************************)
(* A model of LXHardwareSerial.cpp (LXESP32DMX): the private microsecond   *)
(* clock and busy-wait, the watchdog-fed wait primitives, the lock-guarded *)
(* UART register operations, sendBreak and the facade's end().             *)
(*                                                                         *)
(* Every execution context has a call stack pc[t] of labels; the head is   *)
(* the statement it executes next.  A call pushes the callee's first label *)
(* above the caller's continuation, a return pops it.                      *)
(***************************************************************************)
EXTENDS Integers, Sequences, FiniteSets, TLC

(***************************************************************************)
(* Scaled machine word.  unsigned long and uint32_t are 32 bits on the     *)
(* ESP32; the model keeps the arithmetic (everything modulo Word) on a     *)
(* word whose largest value is UINT32_MAX below, with the CPU frequency    *)
(* scaled alike, so that wraps of the cycle counter and of the microsecond *)
(* value are reachable.                                                    *)
(***************************************************************************)
UINT32_MAX == 7

CONFIG_ESP32_DEFAULT_CPU_FREQ_MHZ == 3

Word == UINT32_MAX + 1

WordVal == 0..UINT32_MAX

\* the execution contexts (tasks) of the program
Ctx == {"t1", "t2"}

NoCtx == "none"

VARIABLES
    pc,         \* pc[t]: call stack of context t, head = next statement
    lccount,    \* static unsigned long lccount (privateMicros)
    overflow,   \* static unsigned long overflow (privateMicros)
    mux,        \* holder of privateMicrosMux, or NoCtx
    ccount,     \* ccount[t]: the local ccount of t's privateMicros call
    ovreg,      \* ovreg[t]: overflow as t's call left it inside the critical section
    ret,        \* ret[t]: the value t's last privateMicros call returned
    us,         \* us[t]: argument of hardwareSerialDelayMicroseconds
    m,          \* m[t]: local m of hardwareSerialDelayMicroseconds
    e,          \* e[t]: local e of hardwareSerialDelayMicroseconds
    adv,        \* adv[t]: advance of the clock t has observed since it sampled m
    uart,       \* the facade's _uart: UartHandle, or NULL
    uart_nr,    \* the facade's _uart_nr
    debug,      \* the port the HAL's debug output is set to (uartGetDebug)
    lock,       \* holder of uart->lock, or NoCtx
    dev,        \* uart->dev: the port's register block
    pins,       \* pins[p]: signal routed to pin p, its mode and its level
    harg,       \* harg[t]: the uart_t* argument of the function t executes
    op,         \* op[t]: the guarded operation t executes, with its arguments
    wi,         \* wi[t]: index of the next field write of op[t]
    wkind,      \* wkind[t]: the wait primitive t executes
    did,        \* did[t]: kinds of effect performed since t's last call from idle
    txPin,      \* txPin[t]: local txPin of sendBreak
    save_interrupts, \* save_interrupts[t]: local of sendBreak
    length,     \* length[t]: argument of sendBreak
    called_ena, \* called_ena[t]: int_ena.val at the moment t called sendBreak
    dev0,       \* the register block when the two guarded operations were issued
    ops0        \* ops0[t]: the guarded operation t was issued

timerVars == <<lccount, overflow, mux, ccount, ovreg, ret>>

delayVars == <<us, m, e, adv>>

portVars == <<uart, uart_nr, debug, lock, dev, pins>>

callVars == <<harg, op, wi, wkind, did>>

breakVars == <<txPin, save_interrupts, length, called_ena>>

roundVars == <<dev0, ops0>>

vars == <<pc, lccount, overflow, mux, ccount, ovreg, ret, us, m, e, adv,
          uart, uart_nr, debug, lock, dev, pins, harg, op, wi, wkind, did,
          txPin, save_interrupts, length, called_ena, dev0, ops0>>

Top(t) == Head(pc[t])

\* replace the head of t's stack by the labels in seq
Goto(t, seq) == pc' = [pc EXCEPT ![t] = seq \o Tail(pc[t])]

Min(a, b) == IF a < b THEN a ELSE b

(***************************************************************************)
(* privateMicros, lines 53-66                                              *)
(***************************************************************************)

\* the accumulator stepped by the whole period of the cycle counter
OverflowStepCycles(ov) == (ov + UINT32_MAX) % Word

\* overflow += UINT32_MAX / CONFIG_ESP32_DEFAULT_CPU_FREQ_MHZ, in the word
OverflowStep(ov) == (ov + (UINT32_MAX \div CONFIG_ESP32_DEFAULT_CPU_FREQ_MHZ)) % Word

\* the accumulator had the wrap test been left out
NextOverflowNever(c, lc, ov) == ov

\* if(ccount < lccount) overflow += ...
NextOverflow(c, lc, ov) == IF c < lc THEN OverflowStep(ov) ELSE ov

\* overflow + (ccount / CONFIG_ESP32_DEFAULT_CPU_FREQ_MHZ), in the word
MicrosValue(ov, c) == (ov + (c \div CONFIG_ESP32_DEFAULT_CPU_FREQ_MHZ)) % Word

\* portENTER_CRITICAL_ISR(&privateMicrosMux): spins until the mux is free
PmEnter(t) ==
    /\ Top(t) = "pm_enter"
    /\ mux = NoCtx
    /\ mux' = t
    /\ Goto(t, <<"pm_critical">>)
    /\ UNCHANGED <<lccount, overflow, ccount, ovreg, ret, us, m, e, adv>>
    /\ UNCHANGED <<portVars, callVars, breakVars, roundVars>>

\* rsr ccount; if(ccount < lccount) overflow += ...; lccount = ccount
\* The cycle counter is hardware: the value read is any word value.
PmCritical(t) ==
    /\ Top(t) = "pm_critical"
    /\ \E c \in WordVal :
        /\ ccount' = [ccount EXCEPT ![t] = c]
        /\ overflow' = NextOverflow(c, lccount, overflow)
        /\ ovreg' = [ovreg EXCEPT ![t] = NextOverflow(c, lccount, overflow)]
        /\ lccount' = c
    /\ Goto(t, <<"pm_exit">>)
    /\ UNCHANGED <<mux, ret, us, m, e, adv>>
    /\ UNCHANGED <<portVars, callVars, breakVars, roundVars>>

\* portEXIT_CRITICAL_ISR(&privateMicrosMux)
PmExit(t) ==
    /\ Top(t) = "pm_exit"
    /\ mux' = NoCtx
    /\ Goto(t, <<"pm_return">>)
    /\ UNCHANGED <<lccount, overflow, ccount, ovreg, ret, us, m, e, adv>>
    /\ UNCHANGED <<portVars, callVars, breakVars, roundVars>>

\* The values the return statement can yield: overflow is read after the
\* critical section was left, unsynchronised with a writer in another
\* context, so the build yields the value the call left in the critical
\* section (kept in a register) or the value now in memory.
ReturnValues(t) == {MicrosValue(ovreg[t], ccount[t]), MicrosValue(overflow, ccount[t])}

\* the clock advance a delay in progress observes with the return of value r
Observed(t, r) ==
    IF Len(pc[t]) > 1 /\ pc[t][2] \in {"dl_test1", "dl_test2"}
    THEN Min(adv[t] + ((r - ret[t]) % Word), UINT32_MAX)
    ELSE adv[t]

\* return overflow + (ccount / CONFIG_ESP32_DEFAULT_CPU_FREQ_MHZ); the locals
\* of the call go out of scope
PmReturn(t) ==
    /\ Top(t) = "pm_return"
    /\ \E r \in ReturnValues(t) :
        /\ ret' = [ret EXCEPT ![t] = r]
        /\ adv' = [adv EXCEPT ![t] = Observed(t, r)]
    /\ ccount' = [ccount EXCEPT ![t] = 0]
    /\ ovreg' = [ovreg EXCEPT ![t] = 0]
    /\ pc' = [pc EXCEPT ![t] = Tail(pc[t])]
    /\ UNCHANGED <<lccount, overflow, mux, us, m, e>>
    /\ UNCHANGED <<portVars, callVars, breakVars, roundVars>>

\* a caller outside this file's delay calls privateMicros
CallPrivateMicros(t) ==
    /\ Top(t) = "idle"
    /\ pc' = [pc EXCEPT ![t] = <<"pm_enter">> \o pc[t]]
    /\ UNCHANGED <<timerVars, delayVars, portVars, callVars, breakVars, roundVars>>

(***************************************************************************)
(* hardwareSerialDelayMicroseconds, lines 68-81                            *)
(***************************************************************************)

\* uint32_t e = (m + us)
DelayEnd(mv, d) == (mv + d) % Word

\* the test had the overflow of m + us been ignored
DelayOverflowsNever(mv, ev) == FALSE

\* if(m > e): the first loop runs
DelayOverflows(mv, ev) == mv > ev

\* while(privateMicros() > e)
Loop1Spins(now, ev) == now > ev

\* while(privateMicros() < e)
Loop2Spins(now, ev) == now < ev

\* hardwareSerialDelayMicroseconds(d) is called: uint32_t m = privateMicros()
CallDelay(t, d) ==
    /\ Top(t) = "idle"
    /\ us' = [us EXCEPT ![t] = d]
    /\ pc' = [pc EXCEPT ![t] = <<"pm_enter", "dl_got_m">> \o pc[t]]
    /\ UNCHANGED <<timerVars, m, e, adv, portVars, callVars, breakVars, roundVars>>

\* m is assigned; if(us) { e = m + us; if(m > e) loop 1; loop 2 }
DlGotM(t) ==
    /\ Top(t) = "dl_got_m"
    /\ m' = [m EXCEPT ![t] = ret[t]]
    /\ adv' = [adv EXCEPT ![t] = 0]
    /\ IF us[t] # 0
       THEN /\ e' = [e EXCEPT ![t] = DelayEnd(ret[t], us[t])]
            /\ IF DelayOverflows(ret[t], DelayEnd(ret[t], us[t]))
               THEN Goto(t, <<"pm_enter", "dl_test1">>)
               ELSE Goto(t, <<"pm_enter", "dl_test2">>)
       ELSE /\ e' = e
            /\ Goto(t, <<"dl_return">>)
    /\ UNCHANGED <<timerVars, us, portVars, callVars, breakVars, roundVars>>

\* the test of while(privateMicros() > e) on the value just returned
DlTest1(t) ==
    /\ Top(t) = "dl_test1"
    /\ IF Loop1Spins(ret[t], e[t])
       THEN Goto(t, <<"pm_enter", "dl_test1">>)
       ELSE Goto(t, <<"pm_enter", "dl_test2">>)
    /\ UNCHANGED <<timerVars, delayVars, portVars, callVars, breakVars, roundVars>>

\* the test of while(privateMicros() < e) on the value just returned
DlTest2(t) ==
    /\ Top(t) = "dl_test2"
    /\ IF Loop2Spins(ret[t], e[t])
       THEN Goto(t, <<"pm_enter", "dl_test2">>)
       ELSE Goto(t, <<"dl_return">>)
    /\ UNCHANGED <<timerVars, delayVars, portVars, callVars, breakVars, roundVars>>

\* hardwareSerialDelayMicroseconds returns to its caller; its locals go out
\* of scope
DlReturn(t) ==
    /\ Top(t) = "dl_return"
    /\ pc' = [pc EXCEPT ![t] = Tail(pc[t])]
    /\ us' = [us EXCEPT ![t] = 0]
    /\ m' = [m EXCEPT ![t] = 0]
    /\ e' = [e EXCEPT ![t] = 0]
    /\ adv' = [adv EXCEPT ![t] = 0]
    /\ UNCHANGED <<timerVars, portVars, callVars, breakVars, roundVars>>

(***************************************************************************)
(* The port: struct uart_struct_t (lines 22-29) and its register block     *)
(***************************************************************************)

NULL == "NULL"

\* the uart_t* of the opened port
UartHandle == "uart"

\* the interrupt bits of int_ena / int_raw / int_clr the model keeps
IntBits == {"brk_det", "tx_done", "tx_brk_idle_done"}

\* int_clr.val = 0xffffffff names every bit
AllBits == IntBits

\* the effect kinds recorded in did
Effects == {"read", "write", "feed", "yield"}

NoOp == [name |-> "none", en |-> 0, len |-> 0, idle |-> 0, value |-> {}]

\* the largest value idle_conf.tx_idle_num holds: the field is narrower than
\* the uint16_t the caller passes
TX_IDLE_NUM_MAX == 1

\* the value a register field keeps of a written value: its low bits
Stored(f, v) == IF f = "tx_idle_num" THEN v % (TX_IDLE_NUM_MAX + 1) ELSE v

\* the writes of lines 141-143 with len and idle exchanged
SendBreakWritesSwapped(en, len, idle) ==
    <<[f |-> "txd_brk", v |-> en],
      [f |-> "tx_brk_num", v |-> idle],
      [f |-> "tx_idle_num", v |-> len]>>

\* uartConfigureSendBreak, lines 141-143
SendBreakWrites(en, len, idle) ==
    <<[f |-> "txd_brk", v |-> en],
      [f |-> "tx_brk_num", v |-> len],
      [f |-> "tx_idle_num", v |-> idle]>>

\* an enable of break detection that writes the whole mask
EnableBreakDetectWritesMask ==
    <<[f |-> "int_ena", v |-> {"brk_det"}],
      [f |-> "rxfifo_full_thrhd", v |-> 1],
      [f |-> "auto_baud", v |-> 0]>>

\* uartEnableBreakDetect, lines 165-167
EnableBreakDetectWrites ==
    <<[f |-> "int_ena.brk_det", v |-> 1],
      [f |-> "rxfifo_full_thrhd", v |-> 1],
      [f |-> "auto_baud", v |-> 0]>>

\* the field writes of each guarded operation, in program order
OpWrites(o) ==
    CASE o.name = "uartConfigureRS485" ->
            <<[f |-> "rs485_en", v |-> o.en]>>
      [] o.name = "uartConfigureSendBreak" ->
            SendBreakWrites(o.en, o.len, o.idle)
      [] o.name = "uartSetToTwoStopBits" ->
            <<[f |-> "stop_bit_num", v |-> 1],
              [f |-> "dl1_en", v |-> 1]>>
      [] o.name = "uartEnableBreakDetect" ->
            EnableBreakDetectWrites
      [] o.name = "uartDisableBreakDetect" ->
            <<[f |-> "int_ena.brk_det", v |-> 0]>>
      [] o.name = "uartDisableInterrupts" ->
            <<[f |-> "int_ena", v |-> {}],
              [f |-> "int_clr", v |-> AllBits]>>
      [] o.name = "uartSetInterrupts" ->
            <<[f |-> "int_ena", v |-> o.value]>>
      [] o.name = "uartClearInterrupts" ->
            <<[f |-> "int_clr", v |-> AllBits]>>

\* a register block whose int_clr write clears nothing
WriteFieldNoClear(d, w) ==
    CASE w.f = "int_clr" -> d
      [] w.f = "int_ena.brk_det" ->
            [d EXCEPT !.int_ena = IF w.v = 1 THEN @ \cup {"brk_det"}
                                             ELSE @ \ {"brk_det"}]
      [] OTHER -> [d EXCEPT ![w.f] = Stored(w.f, w.v)]

\* the register block d after the write w: a write to int_clr clears the
\* latches it names in int_raw, a write to one bit of int_ena keeps the others
WriteField(d, w) ==
    CASE w.f = "int_clr" -> [d EXCEPT !.int_raw = @ \ w.v]
      [] w.f = "int_ena.brk_det" ->
            [d EXCEPT !.int_ena = IF w.v = 1 THEN @ \cup {"brk_det"}
                                             ELSE @ \ {"brk_det"}]
      [] OTHER -> [d EXCEPT ![w.f] = Stored(w.f, w.v)]

RECURSIVE ApplyFrom(_, _, _)
ApplyFrom(o, d, i) ==
    IF i > Len(OpWrites(o)) THEN d
    ELSE ApplyFrom(o, WriteField(d, OpWrites(o)[i]), i + 1)

\* the register block after the whole operation o ran alone on d
Apply(o, d) == ApplyFrom(o, d, 1)

(***************************************************************************)
(* The guarded operations, lines 133-195                                   *)
(***************************************************************************)

\* a take that succeeds whoever holds the lock
CanTakeAlways(t) == TRUE

\* xSemaphoreTake(uart->lock, portMAX_DELAY) succeeds
CanTake(t) == lock = NoCtx

\* a guarded operation o is entered with the handle h
EnterGuarded(t, o, h) ==
    /\ op' = [op EXCEPT ![t] = o]
    /\ harg' = [harg EXCEPT ![t] = h]
    /\ wi' = [wi EXCEPT ![t] = 1]
    /\ UNCHANGED <<timerVars, delayVars, portVars, wkind, breakVars>>

\* UART_MUTEX_LOCK() of a null uart: uart->lock dereferences it
GLockNull(t) ==
    /\ Top(t) = "g_lock"
    /\ harg[t] = NULL
    /\ Goto(t, <<"null_deref">>)
    /\ UNCHANGED <<timerVars, delayVars, portVars, callVars, breakVars, roundVars>>

\* UART_MUTEX_LOCK(): retries xSemaphoreTake until it has the lock
GLock(t) ==
    /\ Top(t) = "g_lock"
    /\ harg[t] # NULL
    /\ CanTake(t)
    /\ lock' = t
    /\ Goto(t, <<"g_write">>)
    /\ UNCHANGED <<timerVars, delayVars, uart, uart_nr, debug, dev, pins>>
    /\ UNCHANGED <<callVars, breakVars, roundVars>>

\* the next field write of the operation
GWrite(t) ==
    /\ Top(t) = "g_write"
    /\ dev' = WriteField(dev, OpWrites(op[t])[wi[t]])
    /\ did' = [did EXCEPT ![t] = @ \cup {"write"}]
    /\ IF wi[t] = Len(OpWrites(op[t]))
       THEN /\ wi' = [wi EXCEPT ![t] = 0]
            /\ Goto(t, <<"g_unlock">>)
       ELSE /\ wi' = [wi EXCEPT ![t] = @ + 1]
            /\ pc' = pc
    /\ UNCHANGED <<timerVars, delayVars, uart, uart_nr, debug, lock, pins>>
    /\ UNCHANGED <<harg, op, wkind, breakVars, roundVars>>

\* UART_MUTEX_UNLOCK(), and the operation returns
GUnlock(t) ==
    /\ Top(t) = "g_unlock"
    /\ lock' = NoCtx
    /\ op' = [op EXCEPT ![t] = NoOp]
    /\ harg' = [harg EXCEPT ![t] = NULL]
    /\ pc' = [pc EXCEPT ![t] = Tail(pc[t])]
    /\ UNCHANGED <<timerVars, delayVars, uart, uart_nr, debug, dev, pins>>
    /\ UNCHANGED <<wi, wkind, did, breakVars, roundVars>>

\* the argument values the callers pass
EnVals == {0, 1}

LenVals == {0, 1}

IdleVals == 0 .. (2 * TX_IDLE_NUM_MAX + 1)

GuardedOps ==
    [name : {"uartConfigureRS485"}, en : EnVals, len : {0}, idle : {0}, value : {{}}]
    \cup [name : {"uartConfigureSendBreak"}, en : EnVals, len : LenVals,
           idle : IdleVals, value : {{}}]
    \cup [name : {"uartSetToTwoStopBits", "uartEnableBreakDetect",
                  "uartDisableBreakDetect", "uartDisableInterrupts",
                  "uartClearInterrupts"},
          en : {0}, len : {0}, idle : {0}, value : {{}}]
    \cup [name : {"uartSetInterrupts"}, en : {0}, len : {0}, idle : {0},
          value : SUBSET IntBits]

\* a context issues one guarded operation on the open port
IssueGuarded(t, o) ==
    /\ Top(t) = "idle"
    /\ ops0[t] = NoOp
    /\ ops0' = [ops0 EXCEPT ![t] = o]
    /\ dev0' = dev0
    /\ did' = [did EXCEPT ![t] = {}]
    /\ pc' = [pc EXCEPT ![t] = <<"g_lock">> \o pc[t]]
    /\ EnterGuarded(t, o, uart)

(***************************************************************************)
(* Specifications                                                          *)
(***************************************************************************)

\* sendBreak's choice of pin, lines 234-241
TxPinOf(nr) == IF nr = 1 THEN 10 ELSE IF nr = 2 THEN 17 ELSE 1

\* the transmit signal of UART port nr in the pin matrix
TxSignal(nr) == IF nr = 1 THEN "U1TXD_OUT_IDX"
                ELSE IF nr = 2 THEN "U2TXD_OUT_IDX" ELSE "U0TXD_OUT_IDX"

PinSet == {1, 10, 17}

PortNrs == {0, 1, 2}

NoDebug == -1

(***************************************************************************)
(* The wait primitives, lines 86-131                                       *)
(***************************************************************************)

WaitKinds == {"uartWaitFIFOEmpty", "uartWaitRxFIFOEmpty", "uartWaitTXDone",
              "uartWaitTXBrkDone"}

\* the largest FIFO count the model's hardware reports
FifoMax == 1

\* the test had the null guard been left out
WaitIsNullNever(h) == FALSE

\* if ( uart == NULL ) return
WaitIsNull(h) == h = NULL

\* the loop conditions with their sense inverted
WaitSpinsInverted(k, d) ==
    CASE k = "uartWaitFIFOEmpty" -> d.txfifo_cnt = 0
      [] k = "uartWaitRxFIFOEmpty" -> d.rxfifo_cnt = 0
      [] k = "uartWaitTXDone" -> "tx_done" \in d.int_raw
      [] k = "uartWaitTXBrkDone" -> "tx_brk_idle_done" \in d.int_raw

\* loops that never see their condition satisfied
WaitSpinsForever(k, d) == TRUE

\* the loop condition of each primitive: TRUE while it keeps waiting
WaitSpins(k, d) ==
    CASE k = "uartWaitFIFOEmpty" -> d.txfifo_cnt # 0
      [] k = "uartWaitRxFIFOEmpty" -> d.rxfifo_cnt # 0
      [] k = "uartWaitTXDone" -> "tx_done" \notin d.int_raw
      [] k = "uartWaitTXBrkDone" -> "tx_brk_idle_done" \notin d.int_raw

\* the write after the loop: int_clr.tx_done = 1, int_clr.tx_brk_idle_done = 1;
\* the FIFO waits have none
WaitClears(k) ==
    CASE k = "uartWaitTXDone" -> <<[f |-> "int_clr", v |-> {"tx_done"}]>>
      [] k = "uartWaitTXBrkDone" -> <<[f |-> "int_clr", v |-> {"tx_brk_idle_done"}]>>
      [] OTHER -> <<>>

\* the wait primitive k is called with the handle h
EnterWait(t, k, h) ==
    /\ wkind' = [wkind EXCEPT ![t] = k]
    /\ harg' = [harg EXCEPT ![t] = h]
    /\ pc' = [pc EXCEPT ![t] = <<"w_entry">> \o pc[t]]
    /\ UNCHANGED <<timerVars, delayVars, portVars, op, wi, breakVars, roundVars>>

\* a caller calls the primitive from idle
CallWait(t, k, h) ==
    /\ Top(t) = "idle"
    /\ did' = [did EXCEPT ![t] = {}]
    /\ EnterWait(t, k, h)

\* if ( uart == NULL ) { return; }
WEntry(t) ==
    /\ Top(t) = "w_entry"
    /\ IF WaitIsNull(harg[t])
       THEN Goto(t, <<"w_return">>)
       ELSE Goto(t, <<"w_poll">>)
    /\ UNCHANGED <<timerVars, delayVars, portVars, callVars, breakVars, roundVars>>

\* the loop test: one read of the status field through uart->dev
WPoll(t) ==
    /\ Top(t) = "w_poll"
    /\ harg[t] # NULL
    /\ did' = [did EXCEPT ![t] = @ \cup {"read"}]
    /\ IF WaitSpins(wkind[t], dev)
       THEN Goto(t, <<"w_feed">>)
       ELSE IF WaitClears(wkind[t]) # <<>>
            THEN Goto(t, <<"w_clear">>)
            ELSE Goto(t, <<"w_return">>)
    /\ UNCHANGED <<timerVars, delayVars, portVars, breakVars, roundVars>>
    /\ UNCHANGED <<harg, op, wi, wkind>>

\* a loop body that feeds the watchdog and polls again without the yield
WFeedNoYield(t) ==
    /\ Top(t) = "w_feed"
    /\ did' = [did EXCEPT ![t] = @ \cup {"feed"}]
    /\ Goto(t, <<"w_poll">>)
    /\ UNCHANGED <<timerVars, delayVars, portVars, breakVars, roundVars>>
    /\ UNCHANGED <<harg, op, wi, wkind>>

\* esp_task_wdt_feed()
WFeed(t) ==
    /\ Top(t) = "w_feed"
    /\ did' = [did EXCEPT ![t] = @ \cup {"feed"}]
    /\ Goto(t, <<"w_yield">>)
    /\ UNCHANGED <<timerVars, delayVars, portVars, breakVars, roundVars>>
    /\ UNCHANGED <<harg, op, wi, wkind>>

\* taskYIELD()
WYield(t) ==
    /\ Top(t) = "w_yield"
    /\ did' = [did EXCEPT ![t] = @ \cup {"yield"}]
    /\ Goto(t, <<"w_poll">>)
    /\ UNCHANGED <<timerVars, delayVars, portVars, breakVars, roundVars>>
    /\ UNCHANGED <<harg, op, wi, wkind>>

\* uart->dev->int_clr.<latch> = 1, with no lock taken
WClear(t) ==
    /\ Top(t) = "w_clear"
    /\ dev' = WriteField(dev, WaitClears(wkind[t])[1])
    /\ did' = [did EXCEPT ![t] = @ \cup {"write"}]
    /\ Goto(t, <<"w_return">>)
    /\ UNCHANGED <<timerVars, delayVars, uart, uart_nr, debug, lock, pins>>
    /\ UNCHANGED <<harg, op, wi, wkind, breakVars, roundVars>>

\* the primitive returns
WReturn(t) ==
    /\ Top(t) = "w_return"
    /\ wkind' = [wkind EXCEPT ![t] = "none"]
    /\ harg' = [harg EXCEPT ![t] = NULL]
    /\ pc' = [pc EXCEPT ![t] = Tail(pc[t])]
    /\ UNCHANGED <<timerVars, delayVars, portVars, op, wi, did, breakVars, roundVars>>

(***************************************************************************)
(* The hardware: it updates the status fields the primitives poll          *)
(***************************************************************************)

\* status.txfifo_cnt changes: bytes are queued and shifted out
HwTxFifo ==
    /\ \E n \in (0..FifoMax) \ {dev.txfifo_cnt} : dev' = [dev EXCEPT !.txfifo_cnt = n]
    /\ UNCHANGED <<pc, timerVars, delayVars, uart, uart_nr, debug, lock, pins>>
    /\ UNCHANGED <<callVars, breakVars, roundVars>>

\* status.rxfifo_cnt changes: bytes arrive and are read
HwRxFifo ==
    /\ \E n \in (0..FifoMax) \ {dev.rxfifo_cnt} : dev' = [dev EXCEPT !.rxfifo_cnt = n]
    /\ UNCHANGED <<pc, timerVars, delayVars, uart, uart_nr, debug, lock, pins>>
    /\ UNCHANGED <<callVars, breakVars, roundVars>>

\* the hardware latches an interrupt condition in int_raw
HwLatch ==
    /\ \E b \in IntBits \ dev.int_raw : dev' = [dev EXCEPT !.int_raw = @ \cup {b}]
    /\ UNCHANGED <<pc, timerVars, delayVars, uart, uart_nr, debug, lock, pins>>
    /\ UNCHANGED <<callVars, breakVars, roundVars>>

(***************************************************************************)
(* LXHardwareSerial::sendBreak, lines 233-259                              *)
(***************************************************************************)

\* the longest break the model's callers ask for
MaxBreak == 2

\* a snapshot that keeps no bit
SavedMaskNone(d) == {}

\* uint32_t save_interrupts = _uart->dev->int_ena.val
SavedMask(d) == d.int_ena

\* pinMatrixOutAttach(txPin, U2TXD_OUT_IDX, false, false)
AttachedSignal(nr) == "U2TXD_OUT_IDX"

\* pin p with its field f set to v
SetPin(p, f, v) == pins' = [pins EXCEPT ![p][f] = v]

\* the facade's sendBreak(len) is called
CallSendBreak(t, len) ==
    /\ Top(t) = "idle"
    /\ length' = [length EXCEPT ![t] = len]
    /\ called_ena' = [called_ena EXCEPT ![t] = dev.int_ena]
    /\ did' = [did EXCEPT ![t] = {}]
    /\ pc' = [pc EXCEPT ![t] = <<"sb_pin">> \o pc[t]]
    /\ UNCHANGED <<timerVars, delayVars, portVars, harg, op, wi, wkind>>
    /\ UNCHANGED <<txPin, save_interrupts, roundVars>>

\* the choice of txPin from _uart_nr
SbPin(t) ==
    /\ Top(t) = "sb_pin"
    /\ txPin' = [txPin EXCEPT ![t] = TxPinOf(uart_nr)]
    /\ Goto(t, <<"sb_save">>)
    /\ UNCHANGED <<timerVars, delayVars, portVars, callVars, roundVars>>
    /\ UNCHANGED <<save_interrupts, length, called_ena>>

\* _uart->dev->int_ena.val with _uart null
SbSaveNull(t) ==
    /\ Top(t) = "sb_save"
    /\ uart = NULL
    /\ Goto(t, <<"null_deref">>)
    /\ UNCHANGED <<timerVars, delayVars, portVars, callVars, breakVars, roundVars>>

\* uint32_t save_interrupts = _uart->dev->int_ena.val, with no lock taken
SbSave(t) ==
    /\ Top(t) = "sb_save"
    /\ uart # NULL
    /\ save_interrupts' = [save_interrupts EXCEPT ![t] = SavedMask(dev)]
    /\ did' = [did EXCEPT ![t] = @ \cup {"read"}]
    /\ Goto(t, <<"sb_disable">>)
    /\ UNCHANGED <<timerVars, delayVars, portVars, roundVars>>
    /\ UNCHANGED <<harg, op, wi, wkind, txPin, length, called_ena>>

\* uartDisableInterrupts(_uart)
SbDisable(t) ==
    /\ Top(t) = "sb_disable"
    /\ Goto(t, <<"g_lock", "sb_detach">>)
    /\ EnterGuarded(t, [NoOp EXCEPT !.name = "uartDisableInterrupts"], uart)
    /\ UNCHANGED <<did, roundVars>>

\* pinMatrixOutDetach(txPin, false, false): the pin is a plain GPIO output
SbDetach(t) ==
    /\ Top(t) = "sb_detach"
    /\ SetPin(txPin[t], "sig", "SIG_GPIO_OUT_IDX")
    /\ Goto(t, <<"sb_pinmode">>)
    /\ UNCHANGED <<timerVars, delayVars, uart, uart_nr, debug, lock, dev>>
    /\ UNCHANGED <<callVars, breakVars, roundVars>>

\* pinMode(txPin, OUTPUT)
SbPinMode(t) ==
    /\ Top(t) = "sb_pinmode"
    /\ SetPin(txPin[t], "mode", "OUTPUT")
    /\ Goto(t, <<"sb_low">>)
    /\ UNCHANGED <<timerVars, delayVars, uart, uart_nr, debug, lock, dev>>
    /\ UNCHANGED <<callVars, breakVars, roundVars>>

\* digitalWrite(txPin, LOW)
SbLow(t) ==
    /\ Top(t) = "sb_low"
    /\ SetPin(txPin[t], "level", 0)
    /\ Goto(t, <<"sb_delay">>)
    /\ UNCHANGED <<timerVars, delayVars, uart, uart_nr, debug, lock, dev>>
    /\ UNCHANGED <<callVars, breakVars, roundVars>>

\* a hold of no time at all
HoldTimeNone(len) == 0

\* the time sendBreak asks the delay for: its argument
HoldTime(len) == len

\* hardwareSerialDelayMicroseconds(length)
SbDelay(t) ==
    /\ Top(t) = "sb_delay"
    /\ us' = [us EXCEPT ![t] = HoldTime(length[t])]
    /\ Goto(t, <<"pm_enter", "dl_got_m", "sb_high">>)
    /\ UNCHANGED <<timerVars, m, e, adv, portVars, callVars, breakVars, roundVars>>

\* digitalWrite(txPin, HIGH)
SbHigh(t) ==
    /\ Top(t) = "sb_high"
    /\ SetPin(txPin[t], "level", 1)
    /\ Goto(t, <<"sb_attach">>)
    /\ UNCHANGED <<timerVars, delayVars, uart, uart_nr, debug, lock, dev>>
    /\ UNCHANGED <<callVars, breakVars, roundVars>>

\* pinMatrixOutAttach(txPin, U2TXD_OUT_IDX, false, false)
SbAttach(t) ==
    /\ Top(t) = "sb_attach"
    /\ SetPin(txPin[t], "sig", AttachedSignal(uart_nr))
    /\ Goto(t, <<"sb_restore">>)
    /\ UNCHANGED <<timerVars, delayVars, uart, uart_nr, debug, lock, dev>>
    /\ UNCHANGED <<callVars, breakVars, roundVars>>

\* uartSetInterrupts(_uart, save_interrupts)
SbRestore(t) ==
    /\ Top(t) = "sb_restore"
    /\ Goto(t, <<"g_lock", "sb_return">>)
    /\ EnterGuarded(t, [NoOp EXCEPT !.name = "uartSetInterrupts",
                                     !.value = save_interrupts[t]], uart)
    /\ UNCHANGED <<did, roundVars>>

\* sendBreak returns; its locals go out of scope
SbReturn(t) ==
    /\ Top(t) = "sb_return"
    /\ pc' = [pc EXCEPT ![t] = Tail(pc[t])]
    /\ txPin' = [txPin EXCEPT ![t] = 0]
    /\ save_interrupts' = [save_interrupts EXCEPT ![t] = {}]
    /\ length' = [length EXCEPT ![t] = 0]
    /\ called_ena' = [called_ena EXCEPT ![t] = {}]
    /\ UNCHANGED <<timerVars, delayVars, portVars, callVars, roundVars>>

(***************************************************************************)
(* LXHardwareSerial::end and the delegating facade methods, lines 207-287  *)
(***************************************************************************)

\* the guarded operations the facade delegates to with _uart
FacadeOps == {o \in GuardedOps : o.name \notin {"uartDisableInterrupts", "uartSetInterrupts"}}

\* end() is called: uartDisableInterrupts(_uart)
CallEnd(t) ==
    /\ Top(t) = "idle"
    /\ did' = [did EXCEPT ![t] = {}]
    /\ pc' = [pc EXCEPT ![t] = <<"g_lock", "end_debug">> \o pc[t]]
    /\ EnterGuarded(t, [NoOp EXCEPT !.name = "uartDisableInterrupts"], uart)
    /\ UNCHANGED roundVars

\* if(uartGetDebug() == _uart_nr) { uartSetDebug(0); }
EndDebug(t) ==
    /\ Top(t) = "end_debug"
    /\ debug' = IF debug = uart_nr THEN NoDebug ELSE debug
    /\ Goto(t, <<"end_release">>)
    /\ UNCHANGED <<timerVars, delayVars, uart, uart_nr, lock, dev, pins>>
    /\ UNCHANGED <<callVars, breakVars, roundVars>>

\* uartEnd(_uart); _uart = 0
EndRelease(t) ==
    /\ Top(t) = "end_release"
    /\ uart' = NULL
    /\ pc' = [pc EXCEPT ![t] = Tail(pc[t])]
    /\ UNCHANGED <<timerVars, delayVars, uart_nr, debug, lock, dev, pins>>
    /\ UNCHANGED <<callVars, breakVars, roundVars>>

\* waitFIFOEmpty(), waitRxFIFOEmpty(), waitTXDone(), waitTXBrkDone()
FacadeWait(t, k) == CallWait(t, k, uart)

\* configureRS485, configureSendBreak, setToTwoStopBits, enableBreakDetect,
\* disableBreakDetect, clearInterrupts
FacadeGuarded(t, o) ==
    /\ Top(t) = "idle"
    /\ did' = [did EXCEPT ![t] = {}]
    /\ pc' = [pc EXCEPT ![t] = <<"g_lock">> \o pc[t]]
    /\ EnterGuarded(t, o, uart)
    /\ UNCHANGED roundVars

\* a register block: interrupt enables, latches, FIFO counts, and every
\* configuration field at c
DevOf(ena, raw, tx, rx, c) ==
    [int_ena |-> ena, int_raw |-> raw, txfifo_cnt |-> tx, rxfifo_cnt |-> rx,
     rs485_en |-> c, dl1_en |-> c, txd_brk |-> c, tx_brk_num |-> c,
     tx_idle_num |-> c, stop_bit_num |-> c, rxfifo_full_thrhd |-> c,
     auto_baud |-> c]

\* the state once the facade for port nr is constructed and begun: the port
\* is open with register block d, its transmit pin carries its transmit
\* signal, nothing runs and the timer statics are zero
InitWith(nr, d, dbg) ==
    /\ pc = [t \in Ctx |-> <<"idle">>]
    /\ lccount = 0
    /\ overflow = 0
    /\ mux = NoCtx
    /\ ccount = [t \in Ctx |-> 0]
    /\ ovreg = [t \in Ctx |-> 0]
    /\ ret = [t \in Ctx |-> 0]
    /\ us = [t \in Ctx |-> 0]
    /\ m = [t \in Ctx |-> 0]
    /\ e = [t \in Ctx |-> 0]
    /\ adv = [t \in Ctx |-> 0]
    /\ uart = UartHandle
    /\ uart_nr = nr
    /\ debug = dbg
    /\ lock = NoCtx
    /\ dev = d
    /\ pins = [p \in PinSet |->
                 IF p = TxPinOf(nr)
                 THEN [sig |-> TxSignal(nr), mode |-> "OUTPUT", level |-> 1]
                 ELSE [sig |-> "none", mode |-> "INPUT", level |-> 0]]
    /\ harg = [t \in Ctx |-> NULL]
    /\ op = [t \in Ctx |-> NoOp]
    /\ wi = [t \in Ctx |-> 0]
    /\ wkind = [t \in Ctx |-> "none"]
    /\ did = [t \in Ctx |-> {}]
    /\ txPin = [t \in Ctx |-> 0]
    /\ save_interrupts = [t \in Ctx |-> {}]
    /\ length = [t \in Ctx |-> 0]
    /\ called_ena = [t \in Ctx |-> {}]
    /\ dev0 = d
    /\ ops0 = [t \in Ctx |-> NoOp]

InitTimer == InitWith(0, DevOf({}, {}, 0, 0, 0), NoDebug)

\* one context calls privateMicros and the delay, any number of times
NextTimer ==
    \/ CallPrivateMicros("t1")
    \/ \E d \in WordVal : CallDelay("t1", d)
    \/ PmEnter("t1")
    \/ PmCritical("t1")
    \/ PmExit("t1")
    \/ PmReturn("t1")
    \/ DlGotM("t1")
    \/ DlTest1("t1")
    \/ DlTest2("t1")
    \/ DlReturn("t1")

SpecTimer == InitTimer /\ [][NextTimer]_vars

\* two contexts call privateMicros, each any number of times, interleaved at
\* every statement outside the critical section
NextTimerConc ==
    \E t \in Ctx :
        \/ CallPrivateMicros(t)
        \/ PmEnter(t)
        \/ PmCritical(t)
        \/ PmExit(t)
        \/ PmReturn(t)

SpecTimerConc == InitTimer /\ [][NextTimerConc]_vars

\* two contexts each issue one guarded operation on the open port, from
\* several register states, with the hardware quiescent
InitGuard ==
    \E ena \in {{}, IntBits}, raw \in {{}, IntBits}, c \in {0, 1} :
        InitWith(0, DevOf(ena, raw, 0, 0, c), NoDebug)

NextGuard ==
    \E t \in Ctx :
        \/ \E o \in GuardedOps : IssueGuarded(t, o)
        \/ GLock(t)
        \/ GWrite(t)
        \/ GUnlock(t)

SpecGuard == InitGuard /\ [][NextGuard]_vars

\* one context calls the wait primitives, with the port's handle or with a
\* null handle, while the hardware updates the status fields
InitWait ==
    \E tx \in 0..FifoMax, rx \in 0..FifoMax :
        InitWith(0, DevOf({}, {}, tx, rx, 0), NoDebug)

NextWait ==
    \/ \E k \in WaitKinds, h \in {UartHandle, NULL} : CallWait("t1", k, h)
    \/ WEntry("t1")
    \/ WPoll("t1")
    \/ WFeed("t1")
    \/ WYield("t1")
    \/ WClear("t1")
    \/ WReturn("t1")
    \/ HwTxFifo
    \/ HwRxFifo
    \/ HwLatch

SpecWait == InitWait /\ [][NextWait]_vars

\* one context calls sendBreak, any number of times, on each port, from
\* every interrupt-enable mask
InitBreak ==
    \E nr \in PortNrs, ena \in SUBSET IntBits :
        InitWith(nr, DevOf(ena, IntBits, 0, 0, 0), NoDebug)

NextBreak ==
    \/ \E len \in 0..MaxBreak : CallSendBreak("t1", len)
    \/ SbPin("t1")
    \/ SbSave("t1")
    \/ SbDisable("t1")
    \/ GLock("t1")
    \/ GWrite("t1")
    \/ GUnlock("t1")
    \/ SbDetach("t1")
    \/ SbPinMode("t1")
    \/ SbLow("t1")
    \/ SbDelay("t1")
    \/ PmEnter("t1")
    \/ PmCritical("t1")
    \/ PmExit("t1")
    \/ PmReturn("t1")
    \/ DlGotM("t1")
    \/ DlTest1("t1")
    \/ DlTest2("t1")
    \/ DlReturn("t1")
    \/ SbHigh("t1")
    \/ SbAttach("t1")
    \/ SbRestore("t1")
    \/ SbReturn("t1")

SpecBreak == InitBreak /\ [][NextBreak]_vars

\* one context calls end() and, once end() has returned, any method of the
\* facade, end() again included
InitEnd ==
    \E nr \in PortNrs, ena \in SUBSET IntBits, dbg \in PortNrs \cup {NoDebug} :
        InitWith(nr, DevOf(ena, IntBits, 0, 0, 0), dbg)

NextEnd ==
    \/ CallEnd("t1")
    \/ GLock("t1")
    \/ GWrite("t1")
    \/ GUnlock("t1")
    \/ EndDebug("t1")
    \/ EndRelease("t1")
    \/ (uart = NULL /\ \E k \in WaitKinds : FacadeWait("t1", k))
    \/ WEntry("t1")
    \/ WReturn("t1")
    \/ (uart = NULL /\ \E o \in FacadeOps : FacadeGuarded("t1", o))
    \/ GLockNull("t1")
    \/ (uart = NULL /\ \E len \in 0..MaxBreak : CallSendBreak("t1", len))
    \/ SbPin("t1")
    \/ SbSaveNull("t1")

SpecEnd == InitEnd /\ [][NextEnd]_vars

(***************************************************************************)
(* Claims                                                                  *)
(***************************************************************************)

\* C1: hardwareSerialDelayMicroseconds(d) returns only after the microsecond
\* clock (the values privateMicros returns to the caller) has advanced by at
\* least d since the value m sampled at entry, for every d and every state
\* of the cycle counter and of the microsecond value at entry.
C1_DelayLastsAtLeastUs ==
    \A t \in Ctx : Top(t) = "dl_return" => adv[t] >= us[t]

\* a delay that returns after its target m + us overflowed the word and the
\* clock wrapped during the wait
C1_Witness ==
    /\ Top("t1") = "dl_return"
    /\ us["t1"] > 1
    /\ DelayOverflows(m["t1"], e["t1"])
    /\ ret["t1"] = e["t1"]

\* C2 as stated: for a single caller the values successive privateMicros
\* calls return never decrease.
C2_NonDecreasing == [][ret'["t1"] >= ret["t1"]]_vars

\* C2 as amended: for a single caller each result is the previous result plus
\* a step of at most UINT32_MAX / CPU_FREQ microseconds computed in the
\* word, for every sequence of raw samples: the results never step back
\* modulo the word size, and the plain value decreases only where the
\* microsecond value wraps.
C2_NonDecreasingModuloWord ==
    [][(ret'["t1"] - ret["t1"]) % Word
         <= UINT32_MAX \div CONFIG_ESP32_DEFAULT_CPU_FREQ_MHZ]_vars

\* a call has returned a microsecond value that wrapped past the word
C2_Witness ==
    /\ Top("t1") = "idle"
    /\ overflow # 0
    /\ ret["t1"] < overflow

\* C3: with two contexts calling privateMicros concurrently, every call
\* returns accumulator + raw / cycles-per-microsecond of the sample and the
\* accumulator as they stood inside that call's own critical section.
C3_ReturnsCriticalSectionValue ==
    [][\A t \in Ctx :
         (Top(t) = "pm_return" /\ pc'[t] # pc[t])
             => ret'[t] = MicrosValue(ovreg[t], ccount[t])]_vars


\* both contexts have issued their operation and both have returned
BothReturned == \A t \in Ctx : ops0[t] # NoOp /\ pc[t] = <<"idle">>

\* the register states the two serial orders of the issued operations give
SerialResults ==
    {Apply(ops0["t2"], Apply(ops0["t1"], dev0)),
     Apply(ops0["t1"], Apply(ops0["t2"], dev0))}

\* C6: with two contexts issuing guarded operations on the same port, at
\* most one context is between its lock acquire and its lock release, and
\* once both have returned the register block equals the result of running
\* the two operations one after the other in some order.
C6_GuardedOpsSerialize ==
    /\ Cardinality({t \in Ctx : Top(t) \in {"g_write", "g_unlock"}}) <= 1
    /\ \A t \in Ctx : Top(t) \in {"g_write", "g_unlock"} => lock = t
    /\ BothReturned => dev \in SerialResults

\* two different multi-field operations on the same fields have both
\* returned, and the two serial orders give different register states
C6_Witness ==
    /\ BothReturned
    /\ ops0["t1"].name = "uartConfigureSendBreak"
    /\ ops0["t2"].name = "uartConfigureSendBreak"
    /\ Cardinality(SerialResults) = 2


\* C7: every write to a field of the port's register block is performed by
\* a context that holds the port's lock, in every operation of the file,
\* the wait primitives included.
C7_WritesHoldLock ==
    [][\A t \in Ctx : (pc'[t] # pc[t] /\ dev' # dev) => lock = t]_vars

\* C9: a wait primitive called with a null handle goes from its entry
\* straight to its return, having read no register, written none, fed no
\* watchdog and yielded to no one.
C9_NullWaitDoesNothing ==
    \A t \in Ctx :
        (wkind[t] # "none" /\ harg[t] = NULL)
            => /\ Top(t) \in {"w_entry", "w_return"}
               /\ did[t] = {}

\* a wait primitive called with a null handle is about to return
C9_Witness ==
    /\ Top("t1") = "w_return"
    /\ harg["t1"] = NULL
    /\ wkind["t1"] = "uartWaitTXDone"

\* the condition each wait primitive waits for, as the claim states it
AwaitedCondition(k, d) ==
    CASE k = "uartWaitFIFOEmpty" -> d.txfifo_cnt = 0
      [] k = "uartWaitRxFIFOEmpty" -> d.rxfifo_cnt = 0
      [] k = "uartWaitTXDone" -> "tx_done" \in d.int_raw
      [] k = "uartWaitTXBrkDone" -> "tx_brk_idle_done" \in d.int_raw

\* the latch each wait primitive acknowledges, as the claim states it
OwnLatch(k) ==
    CASE k = "uartWaitTXDone" -> {"tx_done"}
      [] k = "uartWaitTXBrkDone" -> {"tx_brk_idle_done"}
      [] OTHER -> {}

\* C10: with a non-null port a wait primitive leaves its loop only at a poll
\* at which its condition holds; the two latch waits then clear exactly
\* their own latch, once, before they return, and no step of any wait
\* changes the register block otherwise.
C10_WaitsPollThenAcknowledge ==
    [][\A t \in Ctx :
         (pc'[t] # pc[t] /\ wkind[t] # "none" /\ harg[t] # NULL)
            => /\ (Top(t) = "w_poll" /\ Head(pc'[t]) # "w_feed")
                     => AwaitedCondition(wkind[t], dev)
               /\ (Top(t) = "w_poll" /\ Head(pc'[t]) = "w_return")
                     => OwnLatch(wkind[t]) = {}
               /\ Top(t) = "w_clear"
                     => /\ OwnLatch(wkind[t]) # {}
                        /\ dev' = [dev EXCEPT !.int_raw = @ \ OwnLatch(wkind[t])]
                        /\ dev' # dev
               /\ Top(t) # "w_clear" => dev' = dev
               /\ (Top(t) = "w_return" /\ OwnLatch(wkind[t]) # {})
                     => "write" \in did[t]
               /\ (Top(t) = "w_return" /\ OwnLatch(wkind[t]) = {})
                     => "write" \notin did[t]]_vars

\* uartWaitTXDone is about to return after it polled an unset latch, fed,
\* yielded, polled again and acknowledged, with another latch still set
C10_Witness ==
    /\ Top("t1") = "w_return"
    /\ wkind["t1"] = "uartWaitTXDone"
    /\ did["t1"] = Effects
    /\ dev.int_raw = {"brk_det", "tx_brk_idle_done"}


\* C4: with no other context on the port, the interrupt-enable mask reads
\* back, once sendBreak returns, as the mask in force when it was called.
C4_MaskRestored ==
    \A t \in Ctx : Top(t) = "sb_return" => dev.int_ena = called_ena[t]

\* a sendBreak with a hold and two interrupts enabled at the call is about
\* to return
C4_Witness ==
    /\ Top("t1") = "sb_return"
    /\ called_ena["t1"] = {"brk_det", "tx_done"}
    /\ length["t1"] = MaxBreak

\* C5: when sendBreak returns, the pin chosen by the port index is the one
\* it drove, and it carries the transmit signal of the facade's own UART
\* port again, as an output at the idle level.
C5_PinBackOnOwnUart ==
    \A t \in Ctx :
        Top(t) = "sb_return"
            => /\ txPin[t] = TxPinOf(uart_nr)
               /\ pins[txPin[t]] =
                    [sig |-> TxSignal(uart_nr), mode |-> "OUTPUT", level |-> 1]

\* C8: after end() has returned no operation of the facade dereferences the
\* nulled handle.
C8_NoNullDereference ==
    \A t \in Ctx : Top(t) # "null_deref"

(***************************************************************************)
(* The interrupt mask under concurrent callers and a latching UART         *)
(***************************************************************************)

\* a caller of the C interface runs the guarded operation o on the open port
CallGuarded(t, o) ==
    /\ Top(t) = "idle"
    /\ did' = [did EXCEPT ![t] = {}]
    /\ pc' = [pc EXCEPT ![t] = <<"g_lock">> \o pc[t]]
    /\ EnterGuarded(t, o, uart)
    /\ UNCHANGED roundVars

\* the operations that write int_ena or int_clr
IrqOps ==
    {o \in GuardedOps : o.name \in {"uartDisableInterrupts", "uartSetInterrupts",
                                    "uartClearInterrupts", "uartEnableBreakDetect",
                                    "uartDisableBreakDetect"}}

\* the operations that can set a bit of int_ena
MaskSetters == {"uartSetInterrupts", "uartEnableBreakDetect"}

\* the interrupts the UART delivers: latched and enabled
Deliverable(d) == d.int_ena \cap d.int_raw

\* two contexts call the interrupt operations over and over while the
\* hardware latches interrupt conditions
InitIrq ==
    \E ena \in {{}, IntBits}, raw \in {{}, IntBits} :
        InitWith(0, DevOf(ena, raw, 0, 0, 0), NoDebug)

NextIrq ==
    \/ \E t \in Ctx :
        \/ \E o \in IrqOps : CallGuarded(t, o)
        \/ GLock(t)
        \/ GWrite(t)
        \/ GUnlock(t)
    \/ HwLatch

SpecIrq == InitIrq /\ [][NextIrq]_vars

\* C11: uartDisableInterrupts writes the zero mask and then the clear of
\* every latch inside one hold of the lock: the mask is zero from its first
\* write to its return and no latch is set right after its second write.
\* A zero mask becomes non-zero only by a write of an operation that sets
\* mask bits, made under the lock; until then nothing is deliverable,
\* whatever the hardware latches.
C11_DisableInterruptsMasksAll ==
    [][/\ \A t \in Ctx :
            /\ (/\ Top(t) = "g_write"
                /\ op[t].name = "uartDisableInterrupts"
                /\ wi'[t] # wi[t])
               => /\ lock = t
                  /\ lock' = t
                  /\ dev'.int_ena = {}
                  /\ (wi[t] = 2 => dev.int_ena = {} /\ dev'.int_raw = {})
            /\ (/\ Top(t) = "g_unlock"
                /\ op[t].name = "uartDisableInterrupts"
                /\ pc'[t] # pc[t])
               => /\ lock = t
                  /\ wi[t] = 0
                  /\ dev'.int_ena = {}
       /\ (dev.int_ena = {} /\ dev'.int_ena # {})
          => \E t \in Ctx : /\ Top(t) = "g_write"
                            /\ lock = t
                            /\ op[t].name \in MaskSetters
                            /\ wi'[t] # wi[t]
       /\ (dev.int_ena = {} /\ dev'.int_ena = {}) => Deliverable(dev') = {}
      ]_vars

\* uartDisableInterrupts is about to return on a port that had every
\* interrupt enabled, and the hardware has latched a condition again
C11_Witness ==
    \E t \in Ctx :
        /\ Top(t) = "g_unlock"
        /\ op[t].name = "uartDisableInterrupts"
        /\ dev.int_ena = {}
        /\ dev.int_raw # {}

(***************************************************************************)
(* The configuration operations one at a time                              *)
(***************************************************************************)

\* a caller runs the guarded operation o on the open port; dev0 keeps the
\* register block the call found
CallAlone(t, o) ==
    /\ Top(t) = "idle"
    /\ dev0' = dev
    /\ ops0' = [ops0 EXCEPT ![t] = o]
    /\ did' = [did EXCEPT ![t] = {}]
    /\ pc' = [pc EXCEPT ![t] = <<"g_lock">> \o pc[t]]
    /\ EnterGuarded(t, o, uart)

\* the fields of the register block
Fields == DOMAIN DevOf({}, {}, 0, 0, 0)

\* the call of the operation named n by t has returned
Returned(t, n) == Top(t) = "idle" /\ ops0[t].name = n

\* every field outside fs is as the call found it
Kept(fs) == \A f \in Fields \ fs : dev[f] = dev0[f]

\* one context calls the guarded operations one after another, from several
\* register states, with the hardware quiescent
InitConfig ==
    \E ena \in {{}, {"tx_done"}, IntBits}, c \in {0, 1}, a \in {0, 1} :
        InitWith(0, [DevOf(ena, {}, 0, 0, c) EXCEPT !.auto_baud = a], NoDebug)

NextConfig ==
    \/ \E o \in GuardedOps : CallAlone("t1", o)
    \/ GLock("t1")
    \/ GWrite("t1")
    \/ GUnlock("t1")

SpecConfig == InitConfig /\ [][NextConfig]_vars

\* C12 as stated: after uartConfigureSendBreak(en, len, idle) the break
\* length reads back len and the idle length reads back idle, for every
\* argument, and every field the operation does not name is unchanged.
C12_ReadsBackArguments ==
    Returned("t1", "uartConfigureSendBreak") =>
        /\ dev.tx_brk_num = ops0["t1"].len
        /\ dev.tx_idle_num = ops0["t1"].idle
        /\ Kept({"txd_brk", "tx_brk_num", "tx_idle_num"})

\* C12 amended: the break length reads back len; the idle length reads back
\* the low bits of idle that the field holds, which is idle when idle fits
\* the field; every field the operation does not name is unchanged.
C12_ReadsBackStoredArguments ==
    Returned("t1", "uartConfigureSendBreak") =>
        /\ dev.txd_brk = ops0["t1"].en
        /\ dev.tx_brk_num = ops0["t1"].len
        /\ dev.tx_idle_num = ops0["t1"].idle % (TX_IDLE_NUM_MAX + 1)
        /\ (ops0["t1"].idle <= TX_IDLE_NUM_MAX => dev.tx_idle_num = ops0["t1"].idle)
        /\ Kept({"txd_brk", "tx_brk_num", "tx_idle_num"})

\* uartConfigureSendBreak returned from a call with an idle length wider
\* than the field, on a port whose other fields were set
C12_Witness ==
    /\ Returned("t1", "uartConfigureSendBreak")
    /\ ops0["t1"].idle > TX_IDLE_NUM_MAX
    /\ ops0["t1"].len # dev0.tx_brk_num
    /\ dev0.int_ena # {}
    /\ dev0.rs485_en = 1

\* C13: uartEnableBreakDetect leaves auto-baud 0, the rxfifo-full threshold
\* 1 and the break-detect enable bit set; uartDisableBreakDetect leaves the
\* break-detect enable bit clear; both keep every other enable bit and every
\* other field, the second also the threshold and the auto-baud field.
C13_BreakDetectFrame ==
    /\ Returned("t1", "uartEnableBreakDetect") =>
        /\ dev.auto_baud = 0
        /\ dev.rxfifo_full_thrhd = 1
        /\ dev.int_ena = dev0.int_ena \cup {"brk_det"}
        /\ Kept({"int_ena", "rxfifo_full_thrhd", "auto_baud"})
    /\ Returned("t1", "uartDisableBreakDetect") =>
        /\ dev.int_ena = dev0.int_ena \ {"brk_det"}
        /\ Kept({"int_ena"})

\* uartEnableBreakDetect returned on a port that had other interrupts
\* enabled, break detection off, auto-baud set and another threshold
C13_Witness ==
    /\ Returned("t1", "uartEnableBreakDetect")
    /\ dev0.int_ena = {"tx_done"}
    /\ dev0.auto_baud = 1
    /\ dev0.rxfifo_full_thrhd = 0

(***************************************************************************)
(* privateMicros over the first wrap of the cycle counter                  *)
(***************************************************************************)

\* t1 takes its sample in the critical section
Sampled == Top("t1") = "pm_critical" /\ pc'["t1"] # pc["t1"]

\* the cycle counter has not wrapped before this sample, or wrapped once
\* and does not wrap at this sample
WithinOneWrap ==
    \/ overflow = 0
    \/ /\ overflow = UINT32_MAX \div CONFIG_ESP32_DEFAULT_CPU_FREQ_MHZ
       /\ lccount' >= lccount

\* the result of the previous sample and of this one
ResultBefore == MicrosValue(overflow, lccount)

ResultAfter == MicrosValue(overflow', lccount')

\* the whole microseconds between the previous sample and this one
ElapsedMicros == ((lccount' - lccount) % Word) \div CONFIG_ESP32_DEFAULT_CPU_FREQ_MHZ

\* C14 as stated: over a raw sequence that wraps once, each result is
\* greater than the one before, and it differs from it by the microseconds
\* elapsed between the two samples, to within one.
C14_StrictlyIncreasing ==
    [][(Sampled /\ WithinOneWrap /\ lccount > 0 /\ lccount' # lccount)
       => /\ ret["t1"] = ResultBefore
          /\ ResultAfter > ResultBefore
          /\ ResultAfter - ResultBefore - ElapsedMicros \in {-1, 0, 1}
      ]_vars

\* C14 amended: over a raw sequence that wraps once, each result is at
\* least the one before (equal when both samples fall in one microsecond),
\* greater when two whole microseconds or more elapsed, and differs from it
\* by the whole microseconds elapsed between the two samples, to within one,
\* across the wrap too; the call returns that result.
C14_TracksElapsedMicros ==
    [][/\ (Sampled /\ WithinOneWrap)
          => /\ ret["t1"] = ResultBefore
             /\ ResultAfter >= ResultBefore
             /\ ResultAfter - ResultBefore - ElapsedMicros \in {-1, 0, 1}
             /\ (ElapsedMicros >= 2 => ResultAfter > ResultBefore)
       /\ (Top("t1") = "pm_return" /\ pc'["t1"] # pc["t1"])
          => ret'["t1"] = MicrosValue(overflow, lccount)
      ]_vars

\* the sample just taken is the first after the wrap, within the first
\* microsecond of the new period, and the previous result was the last
\* microsecond of the old one
C14_Witness ==
    /\ Top("t1") = "pm_exit"
    /\ overflow = UINT32_MAX \div CONFIG_ESP32_DEFAULT_CPU_FREQ_MHZ
    /\ ccount["t1"] < CONFIG_ESP32_DEFAULT_CPU_FREQ_MHZ
    /\ ret["t1"] = overflow

(***************************************************************************)
(* The order of sendBreak's steps                                          *)
(***************************************************************************)

\* the transmit pin sendBreak works on
BreakPin == pins[txPin["t1"]]

BreakPinAfter == pins'[txPin["t1"]]

\* t1 takes the step at label l
StepAt(l) == Top("t1") = l /\ (pc'["t1"] # pc["t1"] \/ wi'["t1"] # wi["t1"])

\* t1 is inside the busy-wait of sendBreak
Holding == Len(pc["t1"]) > 2 /\ pc["t1"][Len(pc["t1"]) - 1] = "sb_high"

\* t1 writes the mask back
Restoring == StepAt("g_write") /\ pc["t1"][2] = "sb_return"

\* C15: sendBreak reads the mask, disables the interrupts, detaches the pin,
\* makes it an output, drives it low, waits out the whole hold, drives it
\* high, reattaches it and restores the mask, in this order: each step finds
\* the effects of the steps before it and none of the steps after it, the
\* pin stays detached and low through the hold, it is driven high and
\* reattached only by the steps after a hold of at least the asked time, and
\* the mask is written back only with the pin reattached.
C15_BreakStepsInOrder ==
    [][/\ (StepAt("g_write") /\ pc["t1"][2] = "sb_detach")
          => /\ save_interrupts["t1"] = called_ena["t1"]
             /\ BreakPin.sig # "SIG_GPIO_OUT_IDX"
             /\ BreakPin.level = 1
       /\ StepAt("sb_detach")
          => /\ dev.int_ena = {}
             /\ lock = NoCtx
             /\ BreakPin.sig # "SIG_GPIO_OUT_IDX"
       /\ StepAt("sb_pinmode") => BreakPin.sig = "SIG_GPIO_OUT_IDX"
       /\ StepAt("sb_low") => BreakPin.sig = "SIG_GPIO_OUT_IDX" /\ BreakPin.mode = "OUTPUT"
       /\ StepAt("sb_delay") => BreakPin.level = 0
       /\ Holding
          => /\ BreakPinAfter = [sig |-> "SIG_GPIO_OUT_IDX", mode |-> "OUTPUT", level |-> 0]
             /\ dev'.int_ena = {}
             /\ lock' = NoCtx
       /\ (StepAt("dl_return") /\ Holding) => adv["t1"] >= length["t1"]
       /\ StepAt("sb_high") => BreakPin.sig = "SIG_GPIO_OUT_IDX" /\ dev.int_ena = {}
       /\ (\E p \in PinSet : pins[p].level = 0 /\ pins'[p].level = 1)
          => StepAt("sb_high")
       /\ StepAt("sb_attach") => BreakPin.level = 1 /\ dev.int_ena = {}
       /\ (\E p \in PinSet : pins[p].sig = "SIG_GPIO_OUT_IDX" /\ pins'[p].sig # pins[p].sig)
          => StepAt("sb_attach")
       /\ Restoring
          => /\ BreakPin.sig = AttachedSignal(uart_nr)
             /\ BreakPin.level = 1
             /\ dev'.int_ena = save_interrupts["t1"]
       /\ (dev.int_ena = {} /\ dev'.int_ena # {}) => Restoring
      ]_vars

\* the hold of a break of the longest length is over and the pin is about
\* to be driven high, with the interrupts that were enabled still off
C15_Witness ==
    /\ Top("t1") = "sb_high"
    /\ length["t1"] = MaxBreak
    /\ save_interrupts["t1"] = IntBits
    /\ dev.int_ena = {}
    /\ pins[txPin["t1"]].level = 0

\* C16: in the loop of a wait primitive on a non-null port, a poll that
\* finds the condition unsatisfied is followed by one watchdog feed and then
\* one yield, and only the yield leads to the next poll; a poll that finds
\* the condition satisfied leaves the loop, and nothing after it feeds or
\* yields.
C16_FeedThenYieldBetweenPolls ==
    [][\A t \in Ctx :
         (pc'[t] # pc[t] /\ wkind[t] # "none" /\ harg[t] # NULL)
            => /\ Top(t) = "w_poll"
                     => IF AwaitedCondition(wkind[t], dev)
                        THEN Head(pc'[t]) \in {"w_clear", "w_return"}
                        ELSE Head(pc'[t]) = "w_feed"
               /\ Top(t) = "w_feed"
                     => /\ Head(pc'[t]) = "w_yield"
                        /\ did'[t] = did[t] \cup {"feed"}
               /\ Top(t) = "w_yield"
                     => /\ Head(pc'[t]) = "w_poll"
                        /\ "feed" \in did[t]
                        /\ did'[t] = did[t] \cup {"yield"}
               /\ Head(pc'[t]) = "w_poll" => Top(t) \in {"w_entry", "w_yield"}
               /\ Top(t) \notin {"w_feed", "w_yield"}
                     => did'[t] \cap {"feed", "yield"} = did[t] \cap {"feed", "yield"}
               /\ Top(t) \in {"w_clear", "w_return"}
                     => Head(pc'[t]) \notin {"w_poll", "w_feed", "w_yield"}
      ]_vars

\* uartWaitFIFOEmpty is about to return after a poll that found bytes in
\* the FIFO, a feed, a yield and a poll that found it empty
C16_Witness ==
    /\ Top("t1") = "w_return"
    /\ wkind["t1"] = "uartWaitFIFOEmpty"
    /\ did["t1"] = {"read", "feed", "yield"}
    /\ dev.txfifo_cnt = 0

(***************************************************************************)
(* The wait primitives under a fair scheduler                              *)
(***************************************************************************)

\* a step of the waiting context
WaitStep(t) ==
    \/ WEntry(t)
    \/ WPoll(t)
    \/ WFeed(t)
    \/ WYield(t)
    \/ WClear(t)
    \/ WReturn(t)

\* the waits of SpecWait, the scheduler running the waiting context again
\* and again after each taskYIELD()
SpecWaitFair == InitWait /\ [][NextWait]_vars /\ WF_vars(WaitStep("t1"))

\* t1 is inside the primitive k on a non-null port
Waiting(k) == wkind["t1"] = k /\ harg["t1"] # NULL

\* C17: under fair scheduling of the waiting context, a wait on a non-null
\* port whose condition holds returns, unless the hardware takes the
\* condition back before the waiter polls it; and a wait leaves its loop at
\* no other moment than a poll at which the condition holds, so while the
\* condition never holds it never returns.
C17_WaitReturnsOnceSatisfied ==
    /\ \A k \in WaitKinds :
          (Waiting(k) /\ AwaitedCondition(k, dev))
             ~> (wkind["t1"] = "none" \/ ~AwaitedCondition(k, dev))
    /\ [][\A k \in WaitKinds :
            (Waiting(k) /\ Top("t1") \in {"w_poll", "w_feed", "w_yield"}
                        /\ Head(pc'["t1"]) \notin {"w_poll", "w_feed", "w_yield"})
               => Top("t1") = "w_poll" /\ AwaitedCondition(k, dev)
         ]_vars

\* uartWaitTXBrkDone polled, fed and yielded with its latch unset, and is
\* back at the poll with the latch now set
C17_Witness ==
    /\ Top("t1") = "w_poll"
    /\ wkind["t1"] = "uartWaitTXBrkDone"
    /\ harg["t1"] # NULL
    /\ {"feed", "yield"} \subseteq did["t1"]
    /\ "tx_brk_idle_done" \in dev.int_raw

(***************************************************************************)
(* sendBreak while another context configures the port                     *)
(***************************************************************************)

\* the steps of sendBreak, of the delay and of the timer in context t
BreakStep(t) ==
    \/ SbPin(t)
    \/ SbSave(t)
    \/ SbDisable(t)
    \/ SbDetach(t)
    \/ SbPinMode(t)
    \/ SbLow(t)
    \/ SbDelay(t)
    \/ PmEnter(t)
    \/ PmCritical(t)
    \/ PmExit(t)
    \/ PmReturn(t)
    \/ DlGotM(t)
    \/ DlTest1(t)
    \/ DlTest2(t)
    \/ DlReturn(t)
    \/ SbHigh(t)
    \/ SbAttach(t)
    \/ SbRestore(t)
    \/ SbReturn(t)

\* the steps of a guarded operation in context t
GuardedStep(t) ==
    \/ GLock(t)
    \/ GWrite(t)
    \/ GUnlock(t)

\* the break-detect operations another context calls meanwhile
BreakDetectOps ==
    {o \in GuardedOps : o.name \in {"uartEnableBreakDetect", "uartDisableBreakDetect"}}

\* t1 calls sendBreak on port 2 with every interrupt enabled while t2 turns
\* break detection on and off
InitBreakConc == InitWith(2, DevOf(IntBits, {}, 0, 0, 0), NoDebug)

NextBreakConc ==
    \/ \E len \in 0..1 : CallSendBreak("t1", len)
    \/ BreakStep("t1")
    \/ GuardedStep("t1")
    \/ \E o \in BreakDetectOps : CallAlone("t2", o)
    \/ GuardedStep("t2")

SpecBreakConc == InitBreakConc /\ [][NextBreakConc]_vars

\* t1 is in sendBreak between the return of its uartDisableInterrupts and
\* its call of uartSetInterrupts
Masked ==
    /\ Len(pc["t1"]) > 1
    /\ pc["t1"][Len(pc["t1"]) - 1] \in
          {"sb_detach", "sb_pinmode", "sb_low", "sb_delay", "sb_high",
           "sb_attach", "sb_restore"}
    /\ ~(Top("t1") \in {"g_lock", "g_write", "g_unlock"})

\* C19: whatever guarded operations another context runs meanwhile, the mask
\* is zero from sendBreak's disable step to its restore step, and break
\* detection that the other context has turned off by a completed
\* uartDisableBreakDetect is off when sendBreak returns.
C19_BreakAtomicWithGuardedOps ==
    /\ Masked => dev.int_ena = {}
    /\ (Top("t1") = "sb_return" /\ Returned("t2", "uartDisableBreakDetect"))
          => "brk_det" \notin dev.int_ena

(***************************************************************************)
(* The port lock with sendBreak, end() and guarded operations              *)
(***************************************************************************)

\* any step context t can take inside a call
CtxStep(t) ==
    \/ BreakStep(t)
    \/ SbSaveNull(t)
    \/ GuardedStep(t)
    \/ GLockNull(t)
    \/ EndDebug(t)
    \/ EndRelease(t)

\* t1 calls sendBreak, t2 calls disableBreakDetect() and end(), each any
\* number of times, on port 2 with every interrupt enabled
InitLock == InitWith(2, DevOf(IntBits, {}, 0, 0, 0), NoDebug)

NextLock ==
    \/ \E len \in 0..1 : CallSendBreak("t1", len)
    \/ \E o \in {f \in FacadeOps : f.name = "uartDisableBreakDetect"} : FacadeGuarded("t2", o)
    \/ CallEnd("t2")
    \/ \E t \in Ctx : CtxStep(t)

SpecLock == InitLock /\ [][NextLock]_vars

\* t waits for a lock or for the timer's mux that another context holds
WaitsForOther(t) ==
    \/ Top(t) = "g_lock" /\ harg[t] # NULL /\ lock \notin {NoCtx, t}
    \/ Top(t) = "pm_enter" /\ mux \notin {NoCtx, t}

\* C18: a context holds the port lock exactly from the lock step to the
\* unlock step of a guarded operation, so the lock is free whenever no
\* guarded operation is between the two, in sendBreak's busy-wait too; and
\* no call of a guarded operation, of sendBreak or of end() gets stuck: a
\* context inside a call can take its next step, or waits for a lock that
\* another context holds and will release.
C18_LockHeldOnlyInsideGuardedOps ==
    /\ \A t \in Ctx : (lock = t) <=> Top(t) \in {"g_write", "g_unlock"}
    /\ \A t \in Ctx :
          \/ Top(t) = "idle"
          \/ ENABLED CtxStep(t)
          \/ WaitsForOther(t)

\* C20: at the first poll of the clock that shows the asked time elapsed
\* since entry the delay stops polling: the second loop returns, and the
\* first loop, which runs when the target wrapped, is left.
C20_ReturnsAtFirstPollAfterDelay ==
    [][\A t \in Ctx :
         (pc'[t] # pc[t] /\ adv[t] >= us[t])
            => /\ Top(t) = "dl_test2" => Head(pc'[t]) = "dl_return"
               /\ Top(t) = "dl_test1" => pc'[t][2] = "dl_test2"
      ]_vars

====
